---- MODULE Spec2Model ----
(***************************************************************************)
(* Model of the search-query-builder: the token-level Aho-Corasick          *)
(* automaton (TokenAC) and the prepare pipeline of SearchQueryBuilder       *)
(* (src/src/search-query-builder.ts), with hydrateAC (src/unnamed/part_000).*)
(*                                                                         *)
(* A string is a sequence of one-character strings (code units).  The two  *)
(* curly quotation marks are written LQ and RQ, the fullwidth letter a is   *)
(* written FWA.  Arrays indexed from 0 in the source (next, fail, out,      *)
(* phrases, pLens) are functions on 0..n-1.                                 *)
(***************************************************************************)
EXTENDS Integers, Sequences, FiniteSets, TLC

VARIABLES pc, ac, cfg, call, hist, log

vars == <<pc, ac, cfg, call, hist, log>>

(***************************************************************************)
(* Characters                                                              *)
(***************************************************************************)
DQ == "\""
BS == "\\"
LQ == "LQ"
RQ == "RQ"
SP == " "
FWA == "FWA"

WhiteSpace == {" ", "\t", "\n"}

AlnumChars ==
  {"a","b","c","d","e","f","g","h","i","j","k","l","m","n","o","p","q","r",
   "s","t","u","v","w","x","y","z","0","1","2","3","4","5","6","7","8","9"}

Joiners == {"-", "'"}

QuoteChars == {DQ, LQ, RQ}

UpperChars ==
  {"A","B","C","D","E","F","G","H","I","J","K","L","M","N","O","P","Q","R",
   "S","T","U","V","W","X","Y","Z"}

LowerOf ==
  [c \in UpperChars |->
     CASE c = "A" -> "a" [] c = "B" -> "b" [] c = "C" -> "c" [] c = "D" -> "d"
       [] c = "E" -> "e" [] c = "F" -> "f" [] c = "G" -> "g" [] c = "H" -> "h"
       [] c = "I" -> "i" [] c = "J" -> "j" [] c = "K" -> "k" [] c = "L" -> "l"
       [] c = "M" -> "m" [] c = "N" -> "n" [] c = "O" -> "o" [] c = "P" -> "p"
       [] c = "Q" -> "q" [] c = "R" -> "r" [] c = "S" -> "s" [] c = "T" -> "t"
       [] c = "U" -> "u" [] c = "V" -> "v" [] c = "W" -> "w" [] c = "X" -> "x"
       [] c = "Y" -> "y" [] c = "Z" -> "z"]

(***************************************************************************)
(* String primitives of the runtime                                        *)
(***************************************************************************)
\* String.prototype.trim
RECURSIVE TrimLeft(_)
TrimLeft(s) ==
  IF s = <<>> THEN s
  ELSE IF s[1] \in WhiteSpace THEN TrimLeft(Tail(s)) ELSE s

RECURSIVE TrimRight(_)
TrimRight(s) ==
  IF s = <<>> THEN s
  ELSE IF s[Len(s)] \in WhiteSpace THEN TrimRight(SubSeq(s, 1, Len(s) - 1)) ELSE s

Trim(s) == TrimRight(TrimLeft(s))

\* String.prototype.toLowerCase
ToLowerCase(s) ==
  [i \in 1..Len(s) |-> IF s[i] \in UpperChars THEN LowerOf[s[i]] ELSE s[i]]

\* String.prototype.normalize("NFKC"): the fullwidth letter folds to its
\* ASCII form; every other modelled character is NFKC-stable.
NFKC(s) == [i \in 1..Len(s) |-> IF s[i] = FWA THEN "a" ELSE s[i]]

\* Array.prototype.join(" ")
RECURSIVE JoinSp(_)
JoinSp(ts) ==
  IF ts = <<>> THEN <<>>
  ELSE IF Len(ts) = 1 THEN ts[1]
  ELSE ts[1] \o <<SP>> \o JoinSp(Tail(ts))

\* Array.prototype.join(" OR ")
RECURSIVE JoinOr(_)
JoinOr(cs) ==
  IF cs = <<>> THEN <<>>
  ELSE IF Len(cs) = 1 THEN cs[1]
  ELSE cs[1] \o <<" ", "O", "R", " ">> \o JoinOr(Tail(cs))

(***************************************************************************)
(* defaultNormalize, defaultTokenize, defaultWrap, quoteExact              *)
(***************************************************************************)
defaultNormalize(s) == Trim(ToLowerCase(NFKC(s)))

\* last index of the maximal run [a-z0-9]+ that starts at i
RECURSIVE RunEnd(_, _)
RunEnd(n, i) ==
  IF i + 1 <= Len(n) /\ n[i + 1] \in AlnumChars THEN RunEnd(n, i + 1) ELSE i

\* last index of the match of [a-z0-9]+(?:[-'][a-z0-9]+)* whose first run ends at e
RECURSIVE MatchEnd(_, _)
MatchEnd(n, e) ==
  IF e + 2 <= Len(n) /\ n[e + 1] \in Joiners /\ n[e + 2] \in AlnumChars
  THEN MatchEnd(n, RunEnd(n, e + 2))
  ELSE e

\* the re.exec loop: i is the regex's lastIndex (1-based)
RECURSIVE TokScan(_, _, _)
TokScan(n, i, out) ==
  IF i > Len(n) THEN out
  ELSE IF n[i] \notin AlnumChars THEN TokScan(n, i + 1, out)
  ELSE LET e == MatchEnd(n, RunEnd(n, i))
       IN  TokScan(n, e + 1, Append(out, SubSeq(n, i, e)))

defaultTokenize(s) == TokScan(defaultNormalize(s), 1, <<>>)

defaultWrap(q) == <<"/">> \o q \o <<"/">>

\* phrase.replace(/\\/g, "\\\\")
RECURSIVE DoubleBackslashes(_)
DoubleBackslashes(s) ==
  IF s = <<>> THEN <<>>
  ELSE (IF s[1] = BS THEN <<BS, BS>> ELSE <<s[1]>>) \o DoubleBackslashes(Tail(s))

\* .replace(/"/g, '\\"')
RECURSIVE EscapeQuotes(_)
EscapeQuotes(s) ==
  IF s = <<>> THEN <<>>
  ELSE (IF s[1] = DQ THEN <<BS, DQ>> ELSE <<s[1]>>) \o EscapeQuotes(Tail(s))

\* the two replacements in the other order: quotes first, then backslashes
quoteExactQuotesFirst(phrase) ==
  <<DQ>> \o DoubleBackslashes(EscapeQuotes(phrase)) \o <<DQ>>

quoteExact(phrase) == <<DQ>> \o EscapeQuotes(DoubleBackslashes(phrase)) \o <<DQ>>

(***************************************************************************)
(* Quote utilities                                                         *)
(***************************************************************************)
\* the counting loop counting escaped straight quotes too
RECURSIVE StraightCountAll(_, _, _)
StraightCountAll(s, i, count) ==
  IF i > Len(s) THEN count
  ELSE StraightCountAll(s, i + 1, IF s[i] = DQ THEN count + 1 ELSE count)

\* the counting loop of hasBalancedStraightQuotes; i is the 1-based index
RECURSIVE StraightCount(_, _, _)
StraightCount(s, i, count) ==
  IF i > Len(s) THEN count
  ELSE StraightCount(s, i + 1,
         IF s[i] = DQ /\ (i = 1 \/ s[i - 1] # BS) THEN count + 1 ELSE count)

hasBalancedStraightQuotes(s) == StraightCount(s, 1, 0) % 2 = 0

\* (s.match(/c/g) || []).length
RECURSIVE MatchCount(_, _)
MatchCount(s, c) ==
  IF s = <<>> THEN 0
  ELSE (IF s[1] = c THEN 1 ELSE 0) + MatchCount(Tail(s), c)

hasBalancedCurlyQuotes(s) == MatchCount(s, LQ) = MatchCount(s, RQ)

\* the inner while loop accepting an escaped closer
RECURSIVE FindCloserNoEscape(_, _, _)
FindCloserNoEscape(input, j, endChar) ==
  IF j > Len(input) THEN 0
  ELSE IF input[j] = endChar THEN j
  ELSE FindCloserNoEscape(input, j + 1, endChar)

\* the inner while loop: first j >= j0 with input[j] = endChar not preceded
\* by a backslash, or 0 when there is none (found = -1 in the source)
RECURSIVE FindCloser(_, _, _)
FindCloser(input, j, endChar) ==
  IF j > Len(input) THEN 0
  ELSE IF input[j] = endChar /\ input[j - 1] # BS THEN j
  ELSE FindCloser(input, j + 1, endChar)

\* the outer loop leaving an opener without a closer out of the remainder
RECURSIVE ExtractLoopDroppingOpener(_, _, _, _)
ExtractLoopDroppingOpener(input, i, prot, remainder) ==
  IF i > Len(input) THEN [protected |-> prot, remainder |-> Trim(remainder)]
  ELSE
    LET ch == input[i]
        endChar == IF ch = DQ THEN DQ ELSE RQ
        found == IF ch = DQ \/ ch = LQ THEN FindCloser(input, i + 1, endChar) ELSE 0
    IN  IF found > i
        THEN LET inside == SubSeq(input, i + 1, found - 1)
             IN  ExtractLoopDroppingOpener(input, found + 1,
                   IF Trim(inside) # <<>> THEN Append(prot, inside) ELSE prot,
                   remainder)
        ELSE ExtractLoopDroppingOpener(input, i + 1, prot,
               IF ch = DQ \/ ch = LQ THEN remainder ELSE Append(remainder, input[i]))

\* the outer while loop of extractQuotedPhrasesBalanced
RECURSIVE ExtractLoop(_, _, _, _)
ExtractLoop(input, i, prot, remainder) ==
  IF i > Len(input) THEN [protected |-> prot, remainder |-> Trim(remainder)]
  ELSE
    LET ch == input[i]
        startStraight == ch = DQ
        startCurly == ch = LQ
        endChar == IF startStraight THEN DQ ELSE RQ
        found == IF startStraight \/ startCurly
                 THEN FindCloser(input, i + 1, endChar) ELSE 0
    IN  IF found > i
        THEN LET inside == SubSeq(input, i + 1, found - 1)
             IN  ExtractLoop(input, found + 1,
                   IF Trim(inside) # <<>> THEN Append(prot, inside) ELSE prot,
                   remainder)
        ELSE ExtractLoop(input, i + 1, prot, Append(remainder, input[i]))

extractQuotedPhrasesBalanced(input) == ExtractLoop(input, 1, <<>>, <<>>)

\* s.replace(/["LQ RQ]/g, " ")
QuotesToSpaces(s) == [i \in 1..Len(s) |-> IF s[i] \in QuoteChars THEN SP ELSE s[i]]

\* .replace(/\s+/g, " ")
RECURSIVE CollapseSpaces(_)
CollapseSpaces(s) ==
  IF s = <<>> THEN <<>>
  ELSE IF s[1] \in WhiteSpace
       THEN IF Len(s) >= 2 /\ s[2] \in WhiteSpace
            THEN CollapseSpaces(Tail(s))
            ELSE <<SP>> \o CollapseSpaces(Tail(s))
       ELSE <<s[1]>> \o CollapseSpaces(Tail(s))

\* s.replace(/["LQ RQ]/g, ""): the quote characters deleted
RECURSIVE QuotesDeleted(_)
QuotesDeleted(s) ==
  IF s = <<>> THEN <<>>
  ELSE (IF s[1] \in QuoteChars THEN <<>> ELSE <<s[1]>>) \o QuotesDeleted(Tail(s))

\* stripStrayQuotes deleting the quote characters instead of blanking them
stripStrayQuotesDeleting(s) == Trim(CollapseSpaces(QuotesDeleted(s)))

stripStrayQuotes(s) == Trim(CollapseSpaces(QuotesToSpaces(s)))

(***************************************************************************)
(* 0-based arrays and property maps                                        *)
(***************************************************************************)
ALen(a) == Cardinality(DOMAIN a)

\* Array.prototype.push
APush(a, x) == [i \in 0..ALen(a) |-> IF i < ALen(a) THEN a[i] ELSE x]

\* Object.create(null)
EmptyMap == <<>>

\* m[k] = v
MapPut(m, k, v) == [x \in (DOMAIN m) \cup {k} |-> IF x = k THEN v ELSE m[x]]

\* Object.keys(m): property creation order.  A node's keys are created in
\* the order of their child ids, which addTokens allots increasingly.
RECURSIVE ObjectKeys(_)
ObjectKeys(m) ==
  IF DOMAIN m = {} THEN <<>>
  ELSE LET k == CHOOSE k \in DOMAIN m : \A x \in DOMAIN m : m[k] <= m[x]
       IN  <<k>> \o ObjectKeys([x \in (DOMAIN m) \ {k} |-> m[x]])

(***************************************************************************)
(* class TokenAC                                                           *)
(***************************************************************************)
TokenACMethods == {"addPhrase", "addTokens", "build", "findAll"}

\* field initialisers and constructor of TokenAC
NewTokenAC ==
  [next     |-> [i \in {0} |-> EmptyMap],
   fail     |-> [i \in {0} |-> 0],
   out      |-> [i \in {0} |-> <<>>],
   phrases  |-> <<>>,
   pLens    |-> <<>>,
   tokenize |-> "defaultTokenize",
   methods  |-> TokenACMethods]

\* s.split(" "), the tokenize property hydrateAC installs
RECURSIVE SplitFrom(_, _, _)
SplitFrom(s, i, cur) ==
  IF i > Len(s) THEN <<cur>>
  ELSE IF s[i] = SP THEN <<cur>> \o SplitFrom(s, i + 1, <<>>)
  ELSE SplitFrom(s, i + 1, Append(cur, s[i]))

SplitOnSpace(s) == SplitFrom(s, 1, <<>>)

\* this.tokenize(raw)
ApplyTokenize(fn, s) ==
  IF fn = "defaultTokenize" THEN defaultTokenize(s) ELSE SplitOnSpace(s)

\* the for loop of addTokens: walk or extend the trie from node
RECURSIVE InsertWalk(_, _, _)
InsertWalk(a, tokens, node) ==
  IF tokens = <<>> THEN [ac |-> a, node |-> node]
  ELSE
    LET t == tokens[1]
    IN  IF t \notin DOMAIN a.next[node]
        THEN LET id == ALen(a.next)
                 linked == [a.next EXCEPT ![node] = MapPut(@, t, id)]
                 b == [a EXCEPT !.next = APush(linked, EmptyMap),
                                !.fail = APush(a.fail, 0),
                                !.out  = APush(a.out, <<>>)]
             IN  InsertWalk(b, Tail(tokens), id)
        ELSE InsertWalk(a, Tail(tokens), a.next[node][t])

\* addTokens without the duplicate test at the terminal node
addTokensNoDedup(a, tokens) ==
  IF Len(tokens) = 0 THEN a
  ELSE
    LET w == InsertWalk(a, tokens, 0)
        b == w.ac
        id == ALen(b.phrases)
    IN  [b EXCEPT !.phrases = APush(b.phrases, JoinSp(tokens)),
                  !.pLens = APush(b.pLens, Len(tokens)),
                  !.out[w.node] = Append(@, id)]

addTokens(a, tokens) ==
  IF Len(tokens) = 0 THEN a
  ELSE
    LET w == InsertWalk(a, tokens, 0)
        b == w.ac
        node == w.node
        str == JoinSp(tokens)
    IN  IF ~ \E k \in 1..Len(b.out[node]) : b.phrases[b.out[node][k]] = str
        THEN LET id == ALen(b.phrases)
             IN  [b EXCEPT !.phrases = APush(b.phrases, str),
                           !.pLens = APush(b.pLens, Len(tokens)),
                           !.out[node] = Append(@, id)]
        ELSE b

addPhrase(a, raw) == addTokens(a, ApplyTokenize(a.tokenize, raw))

\* the link of the parent taken as it is, without following the chain
FailWalkNoFollow(a, j, k) == j

\* while (j !== 0 && this.next[j][k] == null) j = this.fail[j]
RECURSIVE FailWalk(_, _, _)
FailWalk(a, j, k) ==
  IF j # 0 /\ k \notin DOMAIN a.next[j] THEN FailWalk(a, a.fail[j], k) ELSE j

\* the for loop over Object.keys(this.next[v]) in build
RECURSIVE BuildChildren(_, _, _)
BuildChildren(a, v, ks) ==
  IF ks = <<>> THEN a
  ELSE
    LET k == ks[1]
        u == a.next[v][k]
        j == FailWalk(a, a.fail[v], k)
        target == IF k \in DOMAIN a.next[j] THEN a.next[j][k] ELSE 0
    IN  BuildChildren([a EXCEPT !.fail[u] = target], v, Tail(ks))

\* the while (q.length) loop of build
RECURSIVE BuildLoop(_, _)
BuildLoop(a, q) ==
  IF q = <<>> THEN a
  ELSE
    LET v == Head(q)
        f == a.fail[v]
        a1 == IF Len(a.out[f]) > 0 THEN [a EXCEPT !.out[v] = @ \o a.out[f]] ELSE a
        ks == ObjectKeys(a1.next[v])
        a2 == BuildChildren(a1, v, ks)
    IN  BuildLoop(a2, Tail(q) \o [i \in 1..Len(ks) |-> a1.next[v][ks[i]]])

build(a) ==
  LET ks == ObjectKeys(a.next[0])
      \* a root child is never the root itself: c !== 0 always holds
      q == [i \in 1..Len(ks) |-> a.next[0][ks[i]]]
      a0 == [a EXCEPT !.fail = [s \in DOMAIN a.fail |->
                                  IF \E i \in 1..Len(q) : q[i] = s THEN 0 ELSE a.fail[s]]]
  IN  BuildLoop(a0, q)

(***************************************************************************)
(* findAll                                                                 *)
(***************************************************************************)
\* String.prototype.localeCompare on the characters phrases are made of:
\* root collation orders space, then punctuation, then digits, then letters.
CollationOrder ==
  <<" ", "-", "'", "0","1","2","3","4","5","6","7","8","9",
    "a","b","c","d","e","f","g","h","i","j","k","l","m","n","o","p","q","r",
    "s","t","u","v","w","x","y","z">>

CollationRank(c) == CHOOSE i \in 1..Len(CollationOrder) : CollationOrder[i] = c

RECURSIVE localeCompare(_, _)
localeCompare(x, y) ==
  IF x = <<>> /\ y = <<>> THEN 0
  ELSE IF x = <<>> THEN -1
  ELSE IF y = <<>> THEN 1
  ELSE IF CollationRank(x[1]) < CollationRank(y[1]) THEN -1
  ELSE IF CollationRank(x[1]) > CollationRank(y[1]) THEN 1
  ELSE localeCompare(Tail(x), Tail(y))

\* the comparator with the tie broken in descending order
SortCompareTieDescending(x, y) ==
  IF Len(y) - Len(x) # 0 THEN Len(y) - Len(x) ELSE localeCompare(y, x)

\* (a, b) => b.length - a.length || a.localeCompare(b)
SortCompare(x, y) ==
  IF Len(y) - Len(x) # 0 THEN Len(y) - Len(x) ELSE localeCompare(x, y)

\* Array.prototype.sort with SortCompare (stable)
RECURSIVE SortInsert(_, _)
SortInsert(sorted, x) ==
  IF sorted = <<>> THEN <<x>>
  ELSE IF SortCompare(sorted[Len(sorted)], x) <= 0 THEN Append(sorted, x)
  ELSE Append(SortInsert(SubSeq(sorted, 1, Len(sorted) - 1), x), sorted[Len(sorted)])

RECURSIVE SortPhrases(_)
SortPhrases(xs) ==
  IF xs = <<>> THEN <<>>
  ELSE SortInsert(SortPhrases(SubSeq(xs, 1, Len(xs) - 1)), xs[Len(xs)])

\* Array.from(new Set(xs)): first occurrences, in order
RECURSIVE Unique(_, _)
Unique(xs, seen) ==
  IF xs = <<>> THEN <<>>
  ELSE IF xs[1] \in seen THEN Unique(Tail(xs), seen)
  ELSE <<xs[1]>> \o Unique(Tail(xs), seen \cup {xs[1]})

\* best.set(start, {end, phrase}) on the Map kept as its entries in insertion order
BestSet(best, start, end, phrase) ==
  IF \E k \in 1..Len(best) : best[k].start = start
  THEN [k \in 1..Len(best) |->
          IF best[k].start = start
          THEN [start |-> start, end |-> end, phrase |-> phrase] ELSE best[k]]
  ELSE Append(best, [start |-> start, end |-> end, phrase |-> phrase])

\* the outs loop keeping the first candidate of a start instead of the one
\* with the largest end
RECURSIVE OutsLoopKeepFirst(_, _, _, _)
OutsLoopKeepFirst(a, outs, i, best) ==
  IF outs = <<>> THEN best
  ELSE
    LET pid == outs[1]
        start == i - a.pLens[pid] + 1
    IN  IF start >= 0 /\ ~ \E k \in 1..Len(best) : best[k].start = start
        THEN OutsLoopKeepFirst(a, Tail(outs), i, BestSet(best, start, i, a.phrases[pid]))
        ELSE OutsLoopKeepFirst(a, Tail(outs), i, best)

\* for (const pid of outs): i is the 0-based token index
RECURSIVE OutsLoop(_, _, _, _)
OutsLoop(a, outs, i, best) ==
  IF outs = <<>> THEN best
  ELSE
    LET pid == outs[1]
        len == a.pLens[pid]
        start == i - len + 1
        hasPrev == \E k \in 1..Len(best) : best[k].start = start
        prev == CHOOSE e \in {best[k] : k \in 1..Len(best)} : e.start = start
    IN  IF start >= 0 /\ (~hasPrev \/ i > prev.end)
        THEN OutsLoop(a, Tail(outs), i, BestSet(best, start, i, a.phrases[pid]))
        ELSE OutsLoop(a, Tail(outs), i, best)

\* while (state !== 0 && this.next[state][tok] == null) state = this.fail[state]
RECURSIVE FollowFail(_, _, _)
FollowFail(a, state, tok) ==
  IF state # 0 /\ tok \notin DOMAIN a.next[state]
  THEN FollowFail(a, a.fail[state], tok) ELSE state

\* the for loop over tokens: i is the 0-based index, tokens[i + 1] the token
RECURSIVE ScanLoop(_, _, _, _, _)
ScanLoop(a, tokens, i, state, best) ==
  IF i >= Len(tokens) THEN best
  ELSE
    LET tok == tokens[i + 1]
        s1 == FollowFail(a, state, tok)
        ns == IF tok \in DOMAIN a.next[s1] THEN a.next[s1][tok] ELSE 0
    IN  ScanLoop(a, tokens, i + 1, ns, OutsLoop(a, a.out[ns], i, best))

findAll(a, tokens) ==
  IF ALen(a.next) = 1 THEN <<>>
  ELSE
    LET best == ScanLoop(a, tokens, 0, 0, <<>>)
        selected == [k \in 1..Len(best) |-> best[k].phrase]
        unique == Unique(selected, {})
    IN  SortPhrases(unique)

(***************************************************************************)
(* hydrateAC (src/unnamed/part_000)                                        *)
(***************************************************************************)
\* The hydrated object is Object.create(null) with six own properties: it
\* has no prototype, hence none of the methods of class TokenAC.
hydrateAC(h) ==
  [next     |-> h.next,
   fail     |-> h.fail,
   out      |-> h.out,
   phrases  |-> h.phrases,
   pLens    |-> h.pLens,
   tokenize |-> "splitOnSpace",
   methods  |-> {}]

(***************************************************************************)
(* class SearchQueryBuilder                                                *)
(***************************************************************************)
\* for (const toks of opts.pretokenizedUtterances) this.ac.addTokens(toks)
RECURSIVE AddAllTokens(_, _)
AddAllTokens(a, list) ==
  IF list = <<>> THEN a ELSE AddAllTokens(addTokens(a, list[1]), Tail(list))

\* for (const u of opts.utterances) this.ac.addPhrase(u)
RECURSIVE AddAllPhrases(_, _)
AddAllPhrases(a, list) ==
  IF list = <<>> THEN a ELSE AddAllPhrases(addPhrase(a, list[1]), Tail(list))

\* constructor(opts); opts.acOverride is <<>> when absent, <<object>> when given.
\* normalize, tokenize and wrap are left to their defaults.
Constructor(opts) ==
  [cfg |-> [stopWords |-> opts.stopWords,
            alwaysIncludeCleaned |-> opts.alwaysIncludeCleaned],
   ac  |-> IF opts.acOverride # <<>> THEN opts.acOverride[1]
           ELSE LET fresh == NewTokenAC
                    filled == IF Len(opts.pretokenizedUtterances) > 0
                              THEN AddAllTokens(fresh, opts.pretokenizedUtterances)
                              ELSE IF Len(opts.utterances) > 0
                              THEN AddAllPhrases(fresh, opts.utterances)
                              ELSE fresh
                IN  build(filled)]

\* the filter keeping every token
FilterStopKeepAll(ts, stop) == ts

\* the filter keeping the stop tokens and dropping the others
RECURSIVE FilterStopInverted(_, _)
FilterStopInverted(ts, stop) ==
  IF ts = <<>> THEN <<>>
  ELSE (IF ts[1] \in stop THEN <<ts[1]>> ELSE <<>>) \o FilterStopInverted(Tail(ts), stop)

\* remainderTokens.filter((t) => !this.stopWords.has(t))
RECURSIVE FilterStop(_, _)
FilterStop(ts, stop) ==
  IF ts = <<>> THEN <<>>
  ELSE (IF ts[1] \in stop THEN <<>> ELSE <<ts[1]>>) \o FilterStop(Tail(ts), stop)

\* prot.map((p) => p.trim()).filter(Boolean)
RECURSIVE TrimAll(_)
TrimAll(ps) ==
  IF ps = <<>> THEN <<>>
  ELSE (IF Trim(ps[1]) # <<>> THEN <<Trim(ps[1])>> ELSE <<>>) \o TrimAll(Tail(ps))

\* the clauses array with the utterance matches ahead of the protected phrases
AssembleClausesMatchesFirst(trimmed, cleanedText, normOriginal, alwaysIncludeCleaned, quotesBalanced, protectedPhrases, utteranceMatches) ==
  LET c1 == <<quoteExact(trimmed)>>
      c2 == IF cleanedText # <<>> /\
               (alwaysIncludeCleaned \/ cleanedText # normOriginal)
            THEN <<quoteExact(cleanedText)>> ELSE <<>>
      c3 == IF quotesBalanced /\ Len(protectedPhrases) > 0
            THEN [k \in 1..Len(protectedPhrases) |-> quoteExact(protectedPhrases[k])]
            ELSE <<>>
      c4 == [k \in 1..Len(utteranceMatches) |-> quoteExact(utteranceMatches[k])]
  IN  c1 \o c2 \o c4 \o c3

\* the clauses array of prepare, before deduplication
AssembleClauses(trimmed, cleanedText, normOriginal, alwaysIncludeCleaned, quotesBalanced, protectedPhrases, utteranceMatches) ==
  LET c1 == <<quoteExact(trimmed)>>
      c2 == IF cleanedText # <<>> /\
               (alwaysIncludeCleaned \/ cleanedText # normOriginal)
            THEN <<quoteExact(cleanedText)>> ELSE <<>>
      c3 == IF quotesBalanced /\ Len(protectedPhrases) > 0
            THEN [k \in 1..Len(protectedPhrases) |-> quoteExact(protectedPhrases[k])]
            ELSE <<>>
      c4 == [k \in 1..Len(utteranceMatches) |-> quoteExact(utteranceMatches[k])]
  IN  c1 \o c2 \o c3 \o c4

\* the early return running the clause assembly on the empty trimmed input
BlankResultWrapped(originalInput) ==
  [threw |-> FALSE,
   early |-> TRUE,
   ret |-> [originalInput |-> originalInput,
            protectedPhrases |-> <<>>,
            cleanedTokens |-> <<>>,
            cleanedText |-> <<>>,
            utteranceMatches |-> <<>>,
            queryString |-> defaultWrap(quoteExact(<<>>)),
            hadUnbalancedQuotes |-> FALSE],
   remainder |-> <<>>, remainderTokens |-> <<>>, clauses |-> <<>>, ordered |-> <<>>]

\* the early return of prepare for a blank input
BlankResult(originalInput) ==
  [threw |-> FALSE,
   early |-> TRUE,
   ret |-> [originalInput |-> originalInput,
            protectedPhrases |-> <<>>,
            cleanedTokens |-> <<>>,
            cleanedText |-> <<>>,
            utteranceMatches |-> <<>>,
            queryString |-> <<>>,
            hadUnbalancedQuotes |-> FALSE],
   remainder |-> <<>>, remainderTokens |-> <<>>, clauses |-> <<>>, ordered |-> <<>>]

\* prepare(userInput) on the builder with configuration c and automaton a.
\* The result carries the returned PreparedQuery (ret) and the call's locals;
\* threw = TRUE stands for the TypeError of calling a method the automaton
\* object does not have, in which case nothing is returned.
prepare(c, a, userInput) ==
  LET originalInput == userInput
      trimmed == Trim(originalInput)
  IN
  IF trimmed = <<>> THEN BlankResult(originalInput)
  ELSE
    LET straightBalanced == hasBalancedStraightQuotes(originalInput)
        curlyBalanced == hasBalancedCurlyQuotes(originalInput)
        quotesBalanced == straightBalanced /\ curlyBalanced
        ex == extractQuotedPhrasesBalanced(originalInput)
        protectedPhrases == IF quotesBalanced THEN TrimAll(ex.protected) ELSE <<>>
        remainder == IF quotesBalanced THEN ex.remainder
                     ELSE stripStrayQuotes(originalInput)
        remainderTokens == defaultTokenize(remainder)
        cleanedTokens == IF Cardinality(c.stopWords) # 0
                         THEN FilterStop(remainderTokens, c.stopWords)
                         ELSE remainderTokens
        cleanedText == Trim(JoinSp(cleanedTokens))
    IN
    IF "findAll" \notin a.methods
    THEN [threw |-> TRUE, early |-> FALSE,
          ret |-> BlankResult(originalInput).ret,
          remainder |-> remainder, remainderTokens |-> remainderTokens,
          clauses |-> <<>>, ordered |-> <<>>]
    ELSE
      LET utteranceMatches == findAll(a, cleanedTokens)
          normOriginal == defaultNormalize(originalInput)
          clauses == AssembleClauses(trimmed, cleanedText, normOriginal,
                                     c.alwaysIncludeCleaned, quotesBalanced,
                                     protectedPhrases, utteranceMatches)
          ordered == Unique(clauses, {})
          queryString == JoinOr([k \in 1..Len(ordered) |-> defaultWrap(ordered[k])])
      IN  [threw |-> FALSE, early |-> FALSE,
           ret |-> [originalInput |-> originalInput,
                    protectedPhrases |-> protectedPhrases,
                    cleanedTokens |-> cleanedTokens,
                    cleanedText |-> cleanedText,
                    utteranceMatches |-> utteranceMatches,
                    queryString |-> queryString,
                    hadUnbalancedQuotes |-> ~quotesBalanced],
           remainder |-> remainder, remainderTokens |-> remainderTokens,
           clauses |-> clauses, ordered |-> ordered]

(***************************************************************************)
(* Bounds and input sets                                                   *)
(***************************************************************************)
MaxInputLen == 3
MaxInserts == 2
MaxPhraseLen == 2
MaxTokens == 4

\* characters of the enumerated raw inputs
InputAlphabet == {"a", "B", SP, DQ, BS, LQ, RQ, "-"}

\* the worked example: input, stop words and registered phrase
DemoInput == <<"h", "o", "w", " ", "d", "o", " ", "i", " ", "p", "r", "e", " ", "c", "l", "e", "a", "r", " ", "a", " ", "t", "r", "a", "d", "e", "?">>

DemoStopWords == {<<"d", "o">>, <<"i">>, <<"a">>, <<"t", "h", "e">>}

DemoPhrase == <<"p", "r", "e", " ", "c", "l", "e", "a", "r", " ", "t", "r", "a", "d", "e">>

\* the access-control example: phrases (one registered twice), stop words, inputs
DemoAccessPhrases ==
  << <<"r", "b", "a", "c">>,
     <<"a", "b", "a", "c">>,
     <<"r", "b", "a", "c">>,
     <<"r", "o", "w", " ", "l", "e", "v", "e", "l", " ", "s", "e", "c", "u", "r", "i", "t", "y">> >>

DemoAccessStopWords == {<<"a", "n", "d">>, <<"f", "o", "r">>}

DemoAccessInput == <<"r", "b", "a", "c", " ", "a", "n", "d", " ", "a", "b", "a", "c", " ", "f", "o", "r", " ", "r", "o", "w", " ", "l", "e", "v", "e", "l", " ", "s", "e", "c", "u", "r", "i", "t", "y">>

DemoRepeatInput == <<"r", "b", "a", "c", " ", "a", "b", "a", "c", " ", "r", "b", "a", "c">>

\* longer raw inputs, from the examples and the documented cases
ExtraInputs ==
  { DemoInput,
    DemoAccessInput,
    DemoRepeatInput,
    <<"h", "o", "w", " ", "d", "o", " ", "i", " ", "\"", "p", "r", "e", " ", "c", "l", "e", "a", "r", " ", "t", "r", "a", "d", "e", "\"", " ", "t", "o", "d", "a", "y">>,
    <<"h", "o", "w", " ", "d", "o", " ", "i", " ", "\"", "p", "r", "e", " ", "c", "l", "e", "a", "r", " ", "t", "r", "a", "d", "e", " ", "t", "o", "d", "a", "y">>,
    <<"f", "i", "n", "d", " ", "\"", "a", "n", "n", "u", "a", "l", " ", "r", "e", "p", "o", "r", "t", "\"", " ", "n", "o", "w">>,
    <<"B", " ", "a", " ", "B">>,
    <<"FWA", " ", "B", "\t", "a">>,
    <<"\"", "a", "\\", "\"", " ", "B", "\"", "LQ", " ", "RQ", "B">>,
    <<"B", " ", "a", " ", "\"", "a", " ", "B", "\"">>,
    <<"\"", "a", "\"", "B">>,
    <<"\"", "a", "\"", "a">>,
    <<"\\", "\"", "\"", "\"">>,
    <<"LQ", "\"", "RQ", "\"">>,
    <<"LQ", "a", "RQ", "RQ", "LQ">> }

\* all strings over alphabet of length at most n
StringsUpTo(alphabet, n) == UNION {[1..k -> alphabet] : k \in 0..n}

Inputs == StringsUpTo(InputAlphabet, MaxInputLen) \cup ExtraInputs

\* tokens of the automaton-level runs
ACTokens == {<<"a">>, <<"b">>}

\* pre-tokenized phrases handed to addTokens (the empty one included)
TokenPhrases == StringsUpTo(ACTokens, MaxPhraseLen)

\* raw phrases handed to addPhrase
RawPhrases == {<<"A", " ", "b">>, <<" ">>, <<"B">>, <<"a", " ", "b", " ", "A">>}

\* token sequences handed to findAll
TokenInputs == StringsUpTo(ACTokens, MaxTokens)

\* construction options of the pipeline runs
OptDefaults ==
  [stopWords |-> {}, utterances |-> <<>>, pretokenizedUtterances |-> <<>>,
   alwaysIncludeCleaned |-> FALSE, acOverride |-> <<>>]

\* the structure a precompiled artifact carries: the fields of a built automaton
Precompiled ==
  build(AddAllTokens(NewTokenAC, << <<(<<"b">>)>>, <<(<<"b">>), <<"b">>>> >>))

Options ==
  { OptDefaults,
    [OptDefaults EXCEPT !.utterances = << <<"B">>, <<"a", " ", "b">>, <<"b", " ", "b">> >>],
    [OptDefaults EXCEPT !.stopWords = {<<"a">>},
                        !.utterances = << <<"b", " ", "B">>, <<"b">> >>],
    [OptDefaults EXCEPT !.stopWords = {<<"a">>},
                        !.pretokenizedUtterances = << <<(<<"a">>), <<"b">>>>, <<(<<"b">>)>> >>,
                        !.alwaysIncludeCleaned = TRUE],
    [OptDefaults EXCEPT !.acOverride = <<hydrateAC(Precompiled)>>],
    [OptDefaults EXCEPT !.stopWords = DemoStopWords,
                        !.utterances = <<DemoPhrase>>],
    [OptDefaults EXCEPT !.stopWords = DemoAccessStopWords,
                        !.utterances = DemoAccessPhrases] }

(***************************************************************************)
(* Specification of the pipeline: a constructed builder, then prepare calls *)
(***************************************************************************)
NoCall == [op |-> "none"]

\* the non-empty token sequences the options register, in order
RECURSIVE NonEmpty(_)
NonEmpty(list) ==
  IF list = <<>> THEN <<>>
  ELSE (IF list[1] = <<>> THEN <<>> ELSE <<list[1]>>) \o NonEmpty(Tail(list))

RegisteredBy(opts) ==
  IF opts.acOverride # <<>>
  THEN LET ph == opts.acOverride[1].phrases
       IN  [k \in 1..ALen(ph) |-> SplitOnSpace(ph[k - 1])]
  ELSE IF Len(opts.pretokenizedUtterances) > 0
  THEN NonEmpty(opts.pretokenizedUtterances)
  ELSE NonEmpty([k \in 1..Len(opts.utterances) |-> defaultTokenize(opts.utterances[k])])

\* the state after new SearchQueryBuilder(opts); hist records what was registered
Init ==
  \E opts \in Options :
    /\ pc = "ready"
    /\ ac = Constructor(opts).ac
    /\ cfg = Constructor(opts).cfg
    /\ call = NoCall
    /\ hist = RegisteredBy(opts)
    /\ log = <<>>

\* a call of builder.prepare(input), up to its return or throw
Prepare(input) ==
  /\ pc = "ready"
  /\ call' = [op |-> "prepare", input |-> input, res |-> prepare(cfg, ac, input)]
  /\ pc' = "returned"
  /\ UNCHANGED <<ac, cfg, hist, log>>

\* the caller drops the result; the builder is ready for the next call
Return ==
  /\ pc = "returned"
  /\ pc' = "ready"
  /\ call' = NoCall
  /\ UNCHANGED <<ac, cfg, hist, log>>

Next ==
  \/ \E input \in Inputs : Prepare(input)
  \/ Return

Spec == Init /\ [][Next]_vars

(***************************************************************************)
(* Specification of the automaton: insertions, build, then findAll calls   *)
(***************************************************************************)
InitAC ==
  /\ pc = "inserting"
  /\ ac = NewTokenAC
  /\ cfg = Constructor(OptDefaults).cfg
  /\ call = NoCall
  /\ hist = <<>>
  /\ log = <<>>

\* hist records the token sequence of every non-empty insertion
AddTokens(tokens) ==
  /\ pc = "inserting"
  /\ Len(hist) < MaxInserts
  /\ ac' = addTokens(ac, tokens)
  /\ hist' = IF Len(tokens) = 0 THEN hist ELSE Append(hist, tokens)
  /\ UNCHANGED <<pc, cfg, call, log>>

AddPhrase(raw) ==
  /\ pc = "inserting"
  /\ Len(hist) < MaxInserts
  /\ ac' = addPhrase(ac, raw)
  /\ hist' = LET tokens == ApplyTokenize(ac.tokenize, raw)
             IN  IF Len(tokens) = 0 THEN hist ELSE Append(hist, tokens)
  /\ UNCHANGED <<pc, cfg, call, log>>

Build ==
  /\ pc = "inserting"
  /\ ac' = build(ac)
  /\ pc' = "built"
  /\ UNCHANGED <<cfg, call, hist, log>>

FindAll(tokens) ==
  /\ pc = "built"
  /\ call' = [op |-> "findAll", tokens |-> tokens, matches |-> findAll(ac, tokens)]
  /\ pc' = "matched"
  /\ UNCHANGED <<ac, cfg, hist, log>>

ReturnAC ==
  /\ pc = "matched"
  /\ pc' = "built"
  /\ call' = NoCall
  /\ UNCHANGED <<ac, cfg, hist, log>>

NextAC ==
  \/ \E tokens \in TokenPhrases : AddTokens(tokens)
  \/ \E raw \in RawPhrases : AddPhrase(raw)
  \/ Build
  \/ \E tokens \in TokenInputs : FindAll(tokens)
  \/ ReturnAC

SpecAC == InitAC /\ [][NextAC]_vars

(***************************************************************************)
(* Properties of the automaton                                             *)
(***************************************************************************)
\* the phrases registered so far, as token sequences
Registered == {hist[k] : k \in 1..Len(hist)}

\* phrase p occurs contiguously in tokens at the 1-based start s
Occurs(p, tokens, s) ==
  /\ s + Len(p) - 1 <= Len(tokens)
  /\ \A k \in 1..Len(p) : tokens[s + k - 1] = p[k]

StartsWithMatch(tokens) ==
  {s \in 1..Len(tokens) : \E p \in Registered : Occurs(p, tokens, s)}

LongestAt(tokens, s) ==
  CHOOSE p \in Registered :
    /\ Occurs(p, tokens, s)
    /\ \A q \in Registered : Occurs(q, tokens, s) => Len(q) <= Len(p)

LongestPerStart(tokens) ==
  {JoinSp(LongestAt(tokens, s)) : s \in StartsWithMatch(tokens)}

SeqRange(xs) == {xs[k] : k \in 1..Len(xs)}

\* C1: findAll returns exactly the phrase strings that are, for some start
\* index where a registered phrase occurs contiguously, the longest registered
\* phrase occurring at that start; a shorter phrase sharing its start is not
\* reported for that start and nothing that does not occur is reported.
C1_FindAllLongestPerStart ==
  (pc = "matched" /\ call.op = "findAll") =>
     SeqRange(call.matches) = LongestPerStart(call.tokens)

\* a shorter phrase shares its only start with a longer occurring phrase and
\* is left out, while the longer one is returned
C1_Witness ==
  /\ pc = "matched" /\ call.op = "findAll"
  /\ \E p \in Registered, q \in Registered, s \in 1..Len(call.tokens) :
       /\ Len(p) < Len(q)
       /\ Occurs(p, call.tokens, s) /\ Occurs(q, call.tokens, s)
       /\ JoinSp(p) \notin SeqRange(call.matches)
       /\ JoinSp(q) \in SeqRange(call.matches)

\* C5: after any sequence of insertions no two phrase ids carry the same
\* canonical string, the number of phrase ids equals the number of distinct
\* canonical strings inserted (an empty token sequence inserts nothing), and
\* an assigned id never changes its string or its length.
C5_IdsDistinct ==
  /\ \A i \in DOMAIN ac.phrases, j \in DOMAIN ac.phrases :
       i # j => ac.phrases[i] # ac.phrases[j]
  /\ DOMAIN ac.phrases = 0..(Cardinality({JoinSp(p) : p \in Registered}) - 1)
  /\ DOMAIN ac.pLens = DOMAIN ac.phrases
  /\ \A i \in DOMAIN ac.phrases :
       \E p \in Registered : ac.phrases[i] = JoinSp(p) /\ ac.pLens[i] = Len(p)

C5_IdsStable ==
  \A i \in DOMAIN ac.phrases :
    /\ i \in DOMAIN ac'.phrases
    /\ ac'.phrases[i] = ac.phrases[i]
    /\ ac'.pLens[i] = ac.pLens[i]

C5_PhraseIdsDistinctAndStable == [](C5_IdsDistinct) /\ [][C5_IdsStable]_vars

\* the same phrase inserted twice, once as raw text and once pre-tokenized,
\* holds a single id
C5_Witness ==
  /\ Len(hist) = 2 /\ hist[1] = hist[2]
  /\ ALen(ac.phrases) = 1

(***************************************************************************)
(* Properties of prepare                                                   *)
(***************************************************************************)
\* a prepare call has returned its PreparedQuery
Returned == pc = "returned" /\ call.op = "prepare" /\ ~call.res.threw

NonBlank == Trim(call.input) # <<>>

Min(S) == CHOOSE x \in S : \A y \in S : x <= y

\* the subsequence of xs at the indices I, in increasing index order
Pick(xs, I) ==
  [k \in 1..Cardinality(I) |->
     xs[CHOOSE i \in I : Cardinality({j \in I : j <= i}) = k]]

Positions(s, c) == {i \in 1..Len(s) : s[i] = c}

UnescapedStraight(s) == {i \in Positions(s, DQ) : i = 1 \/ s[i - 1] # BS}

CountsBalanced(s) ==
  /\ Cardinality(UnescapedStraight(s)) % 2 = 0
  /\ Cardinality(Positions(s, LQ)) = Cardinality(Positions(s, RQ))

\* C2: for a non-blank input hadUnbalancedQuotes is false exactly when the
\* number of straight quotes not preceded by a backslash is even and the
\* curly opening and closing marks are equal in number; one more unescaped
\* straight quote, opening mark or closing mark then makes it true.
C2_QuoteBalance ==
  (Returned /\ NonBlank) =>
     /\ (call.res.ret.hadUnbalancedQuotes = FALSE) <=> CountsBalanced(call.input)
     /\ ~call.res.ret.hadUnbalancedQuotes =>
          \A t \in {<<DQ>> \o call.input, call.input \o <<LQ>>, call.input \o <<RQ>>} :
             prepare(cfg, ac, t).ret.hadUnbalancedQuotes

\* a balanced input holding an escaped straight quote beside two counted ones
C2_Witness ==
  /\ Returned /\ NonBlank
  /\ ~call.res.ret.hadUnbalancedQuotes
  /\ UnescapedStraight(call.input) # {}
  /\ Positions(call.input, DQ) # UnescapedStraight(call.input)

\* the maximal runs of non-whitespace characters of s
RECURSIVE WordsFrom(_, _, _)
WordsFrom(s, i, cur) ==
  IF i > Len(s) THEN (IF cur = <<>> THEN <<>> ELSE <<cur>>)
  ELSE IF s[i] \in WhiteSpace
       THEN (IF cur = <<>> THEN <<>> ELSE <<cur>>) \o WordsFrom(s, i + 1, <<>>)
       ELSE WordsFrom(s, i + 1, Append(cur, s[i]))

Words(s) == WordsFrom(s, 1, <<>>)

NonQuoteIdx(s) == {i \in 1..Len(s) : s[i] \notin {DQ, LQ, RQ}}

QuotesBlanked(s) == [i \in 1..Len(s) |-> IF i \in NonQuoteIdx(s) THEN s[i] ELSE " "]

\* the tokens of ts outside the stop set, in their order
NonStop(ts, stop) == Pick(ts, {i \in 1..Len(ts) : ts[i] \notin stop})

\* C3 as stated: with unbalanced quotes no phrase is extracted and the
\* tokenized remainder is the input with every quote character deleted,
\* whitespace runs collapsed and trimmed, so cleanedTokens is the stop-filtered
\* tokenization of the input with its quote characters deleted.
C3_QuotesDeleted ==
  (Returned /\ NonBlank /\ call.res.ret.hadUnbalancedQuotes) =>
     LET deleted == Pick(call.input, NonQuoteIdx(call.input))
     IN  /\ call.res.ret.protectedPhrases = <<>>
         /\ call.res.remainder = JoinSp(Words(deleted))
         /\ call.res.ret.cleanedTokens = NonStop(defaultTokenize(deleted), cfg.stopWords)

\* C3 amended: with unbalanced quotes no phrase is extracted and the tokenized
\* remainder is the input with every quote character replaced by a space,
\* whitespace runs collapsed and trimmed, so cleanedTokens is the stop-filtered
\* tokenization of the input with its quote characters replaced by spaces.
C3_QuotesBlanked ==
  (Returned /\ NonBlank /\ call.res.ret.hadUnbalancedQuotes) =>
     LET blanked == QuotesBlanked(call.input)
     IN  /\ call.res.ret.protectedPhrases = <<>>
         /\ call.res.remainder = JoinSp(Words(blanked))
         /\ call.res.ret.cleanedTokens = NonStop(defaultTokenize(blanked), cfg.stopWords)

\* an unbalanced input whose stray quote stands between two word characters,
\* which the remainder keeps apart as two tokens
C3_Witness ==
  /\ Returned /\ NonBlank /\ call.res.ret.hadUnbalancedQuotes
  /\ \E i \in 2..(Len(call.input) - 1) :
       /\ call.input[i] \in {DQ, LQ, RQ}
       /\ call.input[i - 1] \in {"a", "B"} /\ call.input[i + 1] \in {"a", "B"}
  /\ Len(call.res.remainderTokens) = 2

\* the closing mark paired with the opener at p: the first later mark of the
\* opener's family not preceded by a backslash (0 when there is none)
CloserAt(s, p) ==
  LET e == IF s[p] = DQ THEN DQ ELSE RQ
      C == {j \in (p + 1)..Len(s) : s[j] = e /\ s[j - 1] # BS}
  IN  IF C = {} THEN 0 ELSE Min(C)

\* the opener/closer pairs of s from position i on, left to right, each
\* search resuming after the previous closer
RECURSIVE PairsFrom(_, _)
PairsFrom(s, i) ==
  LET O == {p \in i..Len(s) : s[p] \in {DQ, LQ} /\ CloserAt(s, p) # 0}
  IN  IF O = {} THEN <<>>
      ELSE <<[open |-> Min(O), close |-> CloserAt(s, Min(O))]>>
             \o PairsFrom(s, CloserAt(s, Min(O)) + 1)

QuotePairs(s) == PairsFrom(s, 1)

InnerText(s, pr) == SubSeq(s, pr.open + 1, pr.close - 1)

OutsidePairs(s) ==
  {i \in 1..Len(s) :
     \A k \in 1..Len(QuotePairs(s)) :
        i < QuotePairs(s)[k].open \/ i > QuotePairs(s)[k].close}

PairPhrases(s) ==
  LET prs == QuotePairs(s)
      inner == [k \in 1..Len(prs) |-> Trim(InnerText(s, prs[k]))]
  IN  Pick(inner, {k \in 1..Len(prs) : inner[k] # <<>>})

\* C4: with balanced quotes protectedPhrases is, in order, the trimmed
\* non-blank inner text of each opener/closer pair of the scan, the remainder
\* is exactly the characters outside those pairs (trimmed), and cleanedTokens
\* is tokenized from that remainder alone.
C4_BalancedExtraction ==
  (Returned /\ NonBlank /\ ~call.res.ret.hadUnbalancedQuotes) =>
     LET outside == Trim(Pick(call.input, OutsidePairs(call.input)))
     IN  /\ call.res.ret.protectedPhrases = PairPhrases(call.input)
         /\ call.res.remainder = outside
         /\ call.res.ret.cleanedTokens = NonStop(defaultTokenize(outside), cfg.stopWords)

\* a balanced input with a pair whose inner text holds an escaped closer, a
\* pair whose inner text is blank, and text outside the pairs
C4_Witness ==
  /\ Returned /\ NonBlank /\ ~call.res.ret.hadUnbalancedQuotes
  /\ Len(call.res.ret.protectedPhrases) = 1
  /\ Len(QuotePairs(call.input)) = 2
  /\ \E j \in 1..Len(call.res.ret.protectedPhrases[1]) :
        call.res.ret.protectedPhrases[1][j] = DQ
  /\ call.res.remainder # <<>>

\* the clauses of xs that no earlier clause equals, in order
FirstOccurrences(xs) ==
  Pick(xs, {i \in 1..Len(xs) : \A j \in 1..(i - 1) : xs[j] # xs[i]})

\* C6: for a non-blank input the clauses of queryString are, in order, the
\* escaped trimmed input, the escaped cleanedText if non-empty and (always
\* included or different from the normalized input), the escaped protected
\* phrases when quotes were balanced, the escaped utterance matches; a clause
\* equal to an earlier one is dropped, so the first clause is the escaped
\* input, no clause appears twice, and the survivors are wrapped and joined
\* by " OR ".
C6_ClauseOrder ==
  (Returned /\ NonBlank) =>
     LET r == call.res.ret
         raw == quoteExact(Trim(call.input))
         cleaned == IF r.cleanedText # <<>> /\
                       (cfg.alwaysIncludeCleaned \/
                          r.cleanedText # defaultNormalize(call.input))
                    THEN <<quoteExact(r.cleanedText)>> ELSE <<>>
         prot == IF ~r.hadUnbalancedQuotes
                 THEN [k \in 1..Len(r.protectedPhrases) |-> quoteExact(r.protectedPhrases[k])]
                 ELSE <<>>
         found == [k \in 1..Len(r.utteranceMatches) |-> quoteExact(r.utteranceMatches[k])]
         kept == FirstOccurrences(<<raw>> \o cleaned \o prot \o found)
     IN  /\ call.res.ordered = kept
         /\ call.res.ordered[1] = raw
         /\ \A i \in 1..Len(call.res.ordered), j \in 1..Len(call.res.ordered) :
              i # j => call.res.ordered[i] # call.res.ordered[j]
         /\ r.queryString = JoinOr([k \in 1..Len(kept) |-> <<"/">> \o kept[k] \o <<"/">>])

\* a call with a protected phrase, an utterance match and a cleaned-text
\* clause, one of them equal to an earlier clause and dropped
C6_Witness ==
  /\ Returned /\ NonBlank
  /\ call.res.ret.protectedPhrases # <<>>
  /\ call.res.ret.utteranceMatches # <<>>
  /\ Len(call.res.ordered) >= 3
  /\ Len(call.res.clauses) > Len(call.res.ordered)

\* C7: the automaton runs on the remainder after stop-word removal:
\* utteranceMatches is the longest registered phrase per start of the
\* stop-filtered remainder tokens, a registered phrase holding a stop token
\* is never reported, and the worked example yields cleaned tokens
\* how pre clear trade, the single match pre clear trade, and a query string
\* holding both the raw-input clause and the match clause.
C7_MatchOnCleanedTokens ==
  (Returned /\ NonBlank) =>
     LET r == call.res.ret
         filtered == NonStop(call.res.remainderTokens, cfg.stopWords)
     IN  /\ SeqRange(r.utteranceMatches) = LongestPerStart(filtered)
         /\ \A p \in Registered :
              (\E k \in 1..Len(p) : p[k] \in cfg.stopWords) =>
                 JoinSp(p) \notin SeqRange(r.utteranceMatches)
         /\ (cfg.stopWords = DemoStopWords /\ call.input = DemoInput) =>
              /\ r.cleanedTokens = << <<"h", "o", "w">>, <<"p", "r", "e">>,
                                      <<"c", "l", "e", "a", "r">>,
                                      <<"t", "r", "a", "d", "e">> >>
              /\ r.utteranceMatches = <<DemoPhrase>>
              /\ r.queryString =
                   <<"/">> \o quoteExact(DemoInput) \o <<"/", " ", "O", "R", " ", "/">>
                     \o quoteExact(JoinSp(r.cleanedTokens))
                     \o <<"/", " ", "O", "R", " ", "/">>
                     \o quoteExact(DemoPhrase) \o <<"/">>

\* the worked example: the phrase is found although a stop token separates
\* its tokens in the input
C7_Witness ==
  /\ Returned
  /\ cfg.stopWords = DemoStopWords /\ call.input = DemoInput
  /\ Registered = {defaultTokenize(DemoPhrase)}
  /\ call.res.ret.utteranceMatches = <<DemoPhrase>>

\* C8: cleanedTokens is exactly the subsequence of the tokenized remainder
\* outside the stop set, in order; the protected phrases and the raw-input
\* clause keep their text, stop words included.
C8_StopFilterOnRemainderOnly ==
  (Returned /\ NonBlank) =>
     LET r == call.res.ret
         keep == {i \in 1..Len(call.res.remainderTokens) :
                    call.res.remainderTokens[i] \notin cfg.stopWords}
     IN  /\ Len(r.cleanedTokens) = Cardinality(keep)
         /\ r.cleanedTokens = Pick(call.res.remainderTokens, keep)
         /\ cfg.stopWords = {} => r.cleanedTokens = call.res.remainderTokens
         /\ ~r.hadUnbalancedQuotes => r.protectedPhrases = PairPhrases(call.input)
         /\ call.res.ordered[1] = quoteExact(Trim(call.input))

\* a stop token is removed from the remainder while a protected phrase of the
\* same call keeps a stop token
C8_Witness ==
  /\ Returned /\ NonBlank
  /\ Len(call.res.ret.cleanedTokens) < Len(call.res.remainderTokens)
  /\ \E k \in 1..Len(call.res.ret.protectedPhrases) :
       SeqRange(defaultTokenize(call.res.ret.protectedPhrases[k])) \cap cfg.stopWords # {}

\* C9: with the default wrap queryString is empty exactly when the trimmed
\* input is empty, and for a blank input every sequence field and string of
\* the result is empty and hadUnbalancedQuotes is false.
C9_EmptyQueryIffBlank ==
  Returned =>
     LET r == call.res.ret
     IN  /\ (r.queryString = <<>>) <=> (Trim(call.input) = <<>>)
         /\ Trim(call.input) = <<>> =>
              /\ r.protectedPhrases = <<>> /\ r.cleanedTokens = <<>>
              /\ r.utteranceMatches = <<>> /\ r.cleanedText = <<>>
              /\ r.queryString = <<>> /\ r.hadUnbalancedQuotes = FALSE

\* a whitespace-only input
C9_Witness ==
  /\ Returned
  /\ call.input # <<>> /\ Trim(call.input) = <<>>
  /\ call.res.ret.queryString = <<>>

\* C10: a builder whose automaton is the object hydrateAC returns for the
\* fields of a correctly built automaton uses it as it is, and prepare on a
\* non-blank input completes and returns the utteranceMatches of a builder
\* that registered the same phrases itself.
C10_HydratedPrepareCompletes ==
  (pc = "returned" /\ call.op = "prepare" /\ NonBlank /\ ac = hydrateAC(Precompiled)) =>
     LET own == Constructor([OptDefaults EXCEPT !.stopWords = cfg.stopWords,
                                                !.pretokenizedUtterances = hist])
     IN  /\ ~call.res.threw
         /\ call.res.ret.utteranceMatches =
              prepare(cfg, own.ac, call.input).ret.utteranceMatches

(***************************************************************************)
(* Specification of repeated calls: one builder, a sequence of prepare     *)
(* calls.  prepare is synchronous, so calls on one builder run one after   *)
(* another; log records every call with what it returned.                  *)
(***************************************************************************)
MaxCalls == 3

\* inputs of the repeated calls: a match, a quoted phrase, an unbalanced
\* quote, a blank
CallInputs ==
  { DemoInput,
    <<"B", " ", "a", " ", "B">>,
    <<"B", " ", "a", " ", "\"", "a", " ", "B", "\"">>,
    <<"\"", "a">>,
    <<" ">> }

InitCalls == Init

\* a variant in which a call flips alwaysIncludeCleaned on the builder
PrepareLoggedTogglingConfig(input) ==
  /\ pc = "ready"
  /\ Len(log) < MaxCalls
  /\ call' = [op |-> "prepare", input |-> input, res |-> prepare(cfg, ac, input)]
  /\ log' = Append(log, [input |-> input, res |-> prepare(cfg, ac, input)])
  /\ pc' = "returned"
  /\ cfg' = [cfg EXCEPT !.alwaysIncludeCleaned = ~@]
  /\ UNCHANGED <<ac, hist>>

\* a call of builder.prepare(input): it reads this.ac and the configuration
\* and assigns to neither
PrepareLogged(input) ==
  /\ pc = "ready"
  /\ Len(log) < MaxCalls
  /\ call' = [op |-> "prepare", input |-> input, res |-> prepare(cfg, ac, input)]
  /\ log' = Append(log, [input |-> input, res |-> prepare(cfg, ac, input)])
  /\ pc' = "returned"
  /\ UNCHANGED <<ac, cfg, hist>>

NextCalls ==
  \/ \E input \in CallInputs : PrepareLogged(input)
  \/ Return

SpecCalls == InitCalls /\ [][NextCalls]_vars

(***************************************************************************)
(* Properties of repeated calls                                            *)
(***************************************************************************)
C11_SameInputSameResult ==
  \A i, j \in 1..Len(log) :
    log[i].input = log[j].input => log[i].res = log[j].res

C11_BuilderUntouched == ac' = ac /\ cfg' = cfg

LexBefore(x, y) ==
  \E k \in 1..Min({Len(x), Len(y)}) :
    /\ \A j \in 1..(k - 1) : x[j] = y[j]
    /\ CollationRank(x[k]) < CollationRank(y[k])

\* the 1-based starts at which the phrase string p occurs in the tokens
StartsOf(p, tokens) == {s \in 1..Len(tokens) : Occurs(SplitOnSpace(p), tokens, s)}

\* C12: utteranceMatches holds no string twice and is ordered by descending
\* length of the phrase string, equal lengths in ascending dictionary order;
\* this also with a phrase registered twice or matched at several starts.
C12_MatchesUniqueAndOrdered ==
  Returned =>
    LET m == call.res.ret.utteranceMatches
    IN  \A i, j \in 1..Len(m) :
          i < j => \/ Len(m[i]) > Len(m[j])
                   \/ Len(m[i]) = Len(m[j]) /\ LexBefore(m[i], m[j])

\* a phrase registered twice is matched at two starts, next to another phrase
\* of the same length
C12_Witness ==
  /\ Returned
  /\ LET m == call.res.ret.utteranceMatches
     IN  \E i, j \in 1..Len(m) :
           /\ i # j
           /\ Len(m[i]) = Len(m[j])
           /\ Cardinality(StartsOf(m[i], call.res.ret.cleanedTokens)) > 1
           /\ Cardinality({k \in 1..Len(hist) : JoinSp(hist[k]) = m[i]}) > 1

(***************************************************************************)
(* Specification of clause escaping: two clause texts, then quoteExact on  *)
(* each, as prepare does for the clauses it collects before the dedup      *)
(***************************************************************************)
MaxClauseLen == 3

\* characters of the clause texts: a plain one and the two that are escaped
ClauseAlphabet == {"a", DQ, BS}

ClauseTexts == StringsUpTo(ClauseAlphabet, MaxClauseLen)

InitQuote ==
  /\ pc = "ready"
  /\ ac = NewTokenAC
  /\ cfg = Constructor(OptDefaults).cfg
  /\ \E p, q \in ClauseTexts : call = [op |-> "clauses", phrase |-> p, other |-> q]
  /\ hist = <<>>
  /\ log = <<>>

\* clauses.push(quoteExact(...)) for the two texts
QuoteExact ==
  /\ pc = "ready"
  /\ call' = [op |-> "quoteExact", phrase |-> call.phrase, other |-> call.other,
              out |-> quoteExact(call.phrase), otherOut |-> quoteExact(call.other)]
  /\ pc' = "returned"
  /\ UNCHANGED <<ac, cfg, hist, log>>

NextQuote == QuoteExact

SpecQuote == InitQuote /\ [][NextQuote]_vars

(***************************************************************************)
(* Properties of clause escaping                                           *)
(***************************************************************************)
\* every backslash doubled, every double quote prefixed by a backslash,
\* character by character
RECURSIVE EscapedText(_)
EscapedText(s) ==
  IF s = <<>> THEN <<>>
  ELSE (IF s[1] = BS \/ s[1] = DQ THEN <<BS, s[1]>> ELSE <<s[1]>>) \o EscapedText(Tail(s))

\* reading escaped text back: a backslash stands for the character after it
RECURSIVE Unescaped(_)
Unescaped(e) ==
  IF e = <<>> THEN <<>>
  ELSE IF e[1] = BS /\ Len(e) >= 2 THEN <<e[2]>> \o Unescaped(SubSeq(e, 3, Len(e)))
  ELSE <<e[1]>> \o Unescaped(Tail(e))

\* the text between the first and the last character
Inside(e) == SubSeq(e, 2, Len(e) - 1)

\* C13: quoteExact wraps the phrase in double quotes with every backslash
\* doubled and every double quote prefixed by a backslash; de-escaping the
\* result gives back the phrase; two clauses are equal after escaping
\* exactly when they were equal before.
C13_EscapeRoundTrip ==
  call.op = "quoteExact" =>
    /\ Len(call.out) >= 2
    /\ call.out[1] = DQ
    /\ call.out[Len(call.out)] = DQ
    /\ Inside(call.out) = EscapedText(call.phrase)
    /\ Unescaped(Inside(call.out)) = call.phrase
    /\ (call.out = call.otherOut) <=> (call.phrase = call.other)

\* a phrase holding a backslash and a double quote, escaped next to a
\* different clause
C13_Witness ==
  /\ call.op = "quoteExact"
  /\ \E i, j \in 1..Len(call.phrase) : call.phrase[i] = BS /\ call.phrase[j] = DQ
  /\ call.other # call.phrase
  /\ Len(call.out) = Len(call.phrase) + 4

(***************************************************************************)
(* Properties of the failure links                                         *)
(***************************************************************************)
\* the state the token path leads to from the root, -1 when the trie has no
\* such path
RECURSIVE StateFrom(_, _, _)
StateFrom(a, s, path) ==
  IF path = <<>> THEN s
  ELSE IF path[1] \in DOMAIN a.next[s] THEN StateFrom(a, a.next[s][path[1]], Tail(path))
  ELSE -1

StateOf(a, path) == StateFrom(a, 0, path)

\* the prefixes of the inserted phrases, the empty path among them
InsertedPrefixes ==
  {<<>>} \cup UNION {{SubSeq(p, 1, k) : k \in 1..Len(p)} : p \in Registered}

\* the proper suffixes of the path that are paths of the trie (the empty one is)
SuffixPaths(a, path) ==
  {q \in {SubSeq(path, k, Len(path)) : k \in 2..(Len(path) + 1)} : StateOf(a, q) # -1}

LongestSuffixPath(a, path) ==
  CHOOSE q \in SuffixPaths(a, path) : \A r \in SuffixPaths(a, path) : Len(r) <= Len(q)

\* the number of failure links from s to the root, -1 if fuel runs out first
RECURSIVE ChainLength(_, _, _)
ChainLength(a, s, fuel) ==
  IF s = 0 THEN 0
  ELSE IF fuel = 0 THEN -1
  ELSE LET n == ChainLength(a, a.fail[s], fuel - 1)
       IN  IF n = -1 THEN -1 ELSE n + 1

\* C14: after build the root's failure link is the root; the failure link of
\* every other state is the state of the longest proper suffix of its path
\* that is a path of the trie, the root when only the empty suffix is; the
\* link leads to a strictly shallower state and every chain ends at the root.
C14_FailureLinks ==
  pc \in {"built", "matched"} =>
    /\ ac.fail[0] = 0
    /\ {StateOf(ac, p) : p \in InsertedPrefixes} \ {-1} = DOMAIN ac.next
    /\ \A p \in InsertedPrefixes :
         (p # <<>> /\ StateOf(ac, p) # -1) =>
           LET s == StateOf(ac, p)
               q == LongestSuffixPath(ac, p)
           IN  /\ ac.fail[s] = StateOf(ac, q)
               /\ Len(q) < Len(p)
               /\ ChainLength(ac, s, Len(p)) # -1

\* a state three tokens deep whose link was found by following the chain:
\* its parent's link is not the root and has no edge for the last token
C14_Witness ==
  /\ pc = "built"
  /\ \E p \in InsertedPrefixes :
       /\ Len(p) = 3
       /\ StateOf(ac, p) # -1
       /\ ac.fail[StateOf(ac, SubSeq(p, 1, 2))] # 0
       /\ p[3] \notin DOMAIN ac.next[ac.fail[StateOf(ac, SubSeq(p, 1, 2))]]
       /\ ac.fail[StateOf(ac, p)] = StateOf(ac, <<p[3]>>)
       /\ ac.fail[StateOf(ac, p)] # 0

(***************************************************************************)
(* Properties of openers without a closer                                  *)
(***************************************************************************)
\* the openers the scan meets that have no later closer of their family
UnmatchedOpeners(s) ==
  {p \in OutsidePairs(s) : s[p] \in {DQ, LQ} /\ CloserAt(s, p) = 0}

\* s holds a straight mark and a curly mark
MixesFamilies(s) ==
  /\ \E i \in 1..Len(s) : s[i] = DQ
  /\ \E i \in 1..Len(s) : s[i] \in {LQ, RQ}

\* a straight or closing curly mark right after a backslash
EscapedMark(s) == \E i \in 2..Len(s) : s[i] \in {DQ, RQ} /\ s[i - 1] = BS

\* a closing curly mark the scan meets outside every pair
StrayCloser(s) == \E i \in OutsidePairs(s) : s[i] = RQ

\* the quote marks of s, in order
MarksOf(s) == Pick(s, {i \in 1..Len(s) : s[i] \in QuoteChars})

\* a prepare call on a builder with its own automaton met an opener without a
\* closer although the balance check passed
UnmatchedThoughBalanced ==
  /\ pc = "returned" /\ call.op = "prepare" /\ NonBlank
  /\ "findAll" \in ac.methods
  /\ hasBalancedStraightQuotes(call.input) /\ hasBalancedCurlyQuotes(call.input)
  /\ UnmatchedOpeners(call.input) # {}

\* the call completes, the marks outside the pairs (the opener among them) are
\* in the remainder, and every protected phrase is the inner text of a pair
PassedThrough ==
  /\ ~call.res.threw
  /\ ~call.res.ret.hadUnbalancedQuotes
  /\ MarksOf(call.res.remainder) =
       Pick(call.input, {i \in OutsidePairs(call.input) : call.input[i] \in QuoteChars})
  /\ \A k \in 1..Len(call.res.ret.protectedPhrases) :
       \E n \in 1..Len(QuotePairs(call.input)) :
         call.res.ret.protectedPhrases[k] = Trim(InnerText(call.input, QuotePairs(call.input)[n]))

\* C15 as stated: with the balance check passed, an opener without a later
\* closer of its family is met only in an input that mixes the straight and
\* the curly family; it is passed through as remainder text, no phrase is
\* extracted from it, and prepare completes.
C15_UnmatchedOnlyIfMixed ==
  UnmatchedThoughBalanced => (MixesFamilies(call.input) /\ PassedThrough)

\* C15 amended: with the balance check passed, an opener without a later
\* closer of its family is met only in an input that mixes the families, or
\* has a straight or closing curly mark right after a backslash, or has a
\* closing curly mark outside every pair; it is passed through as remainder
\* text, no phrase is extracted from it, and prepare completes.
C15_UnmatchedOpenerPassedThrough ==
  UnmatchedThoughBalanced =>
    /\ MixesFamilies(call.input) \/ EscapedMark(call.input) \/ StrayCloser(call.input)
    /\ PassedThrough

\* a single-family input that passes the balance check, with a pair that
\* gives a phrase and, after it, an opener without a closer
C15_Witness ==
  /\ UnmatchedThoughBalanced
  /\ ~MixesFamilies(call.input)
  /\ Len(call.res.ret.protectedPhrases) = 1
  /\ \E i \in 1..Len(call.res.remainder) : call.res.remainder[i] = LQ

====
